---- MODULE Spec2Model ----
(***************************************************************************)
(* A state-machine model of ogr2osm's OsmData (src/ogr2osm/osm_data.py):   *)
(* the node / way / relation store, node interning through the unique node *)
(* index, way and relation duplicate detection, way splitting, and the     *)
(* writer protocol of output().                                            *)
(*                                                                         *)
(* Objects are referred to by their position in the list that holds them   *)
(* (self.__nodes, self.__ways, self.__relations); a reference is a record  *)
(* [k, i].  Python's None is NoneRef for entities and 0 for an id.         *)
(* Tag dictionaries are sets of tag tokens.  Coordinates are given in      *)
(* half-units of the rounding quantum, i.e. h stands for the float n with  *)
(* n * 10**rounding_digits = h / 2.                                        *)
(***************************************************************************)
EXTENDS Integers, Sequences, FiniteSets, TLC

(***************************************************************************)
(* Bounds of the model.                                                    *)
(***************************************************************************)
\* number of add_feature calls in one run
MaxFeatures == 2
\* number of output() runs
MaxOutputs == 1
\* node identities used by the ring canonicalisation inputs
MaxRingIds == 3
\* length of the ring canonicalisation inputs
MaxRingLen == 5

\* split_long_ways runs in a row
MaxSplitRuns == 2

VARIABLES
    max_points_in_way,  \* self.max_points_in_way
    policy,             \* which merge_tags the translation implements
    identifier,         \* which get_unique_node_identifier it implements
    nodes,              \* self.__nodes
    unique_node_index,  \* self.__unique_node_index
    ways,               \* self.__ways
    relations,          \* self.__relations
    id_counter,         \* the shared element id counter
    hist,               \* the add_feature calls so far: geometry, tags, result,
                        \* merge_tags calls and process_feature_post calls
    split_parts,        \* the way_parts of every way split so far
    split_runs,         \* split_long_ways runs since the last add_feature
    raised,             \* an exception left a handler
    pc,                 \* position inside output(): the next call it makes
    pending,            \* an exception is propagating out of the with block
    writer_calls,       \* calls received by the translation and the writer in output()
    outputs,            \* number of output() runs started
    ring                \* input and results of the ring canonicalisation check

store_vars == <<nodes, unique_node_index, ways, relations, id_counter, split_parts>>
config_vars == <<max_points_in_way, policy, identifier>>
output_vars == <<pc, pending, writer_calls, outputs>>

vars == <<max_points_in_way, policy, identifier, nodes, unique_node_index, ways,
          relations, id_counter, hist, split_parts, split_runs, raised, pc, pending, writer_calls,
          outputs, ring>>

(***************************************************************************)
(* References and small helpers.                                           *)
(***************************************************************************)
NodeRef(i) == [k |-> "node", i |-> i]
WayRef(i) == [k |-> "way", i |-> i]
RelRef(i) == [k |-> "relation", i |-> i]
NoneRef == [k |-> "none", i |-> 0]

Min(a, b) == IF a < b THEN a ELSE b

Reverse(s) == [i \in 1..Len(s) |-> s[Len(s) + 1 - i]]

\* The members of a set of references of one kind as a list of positions.  A
\* Python set of objects is iterated in an order the program does not fix;
\* ord selects the ascending or the descending order.
RECURSIVE SetOrder(_, _)
SetOrder(S, ord) ==
    IF S = {} THEN <<>>
    ELSE LET m == IF ord = "asc"
                    THEN CHOOSE x \in S : \A y \in S : x <= y
                    ELSE CHOOSE x \in S : \A y \in S : x >= y
         IN <<m>> \o SetOrder(S \ {m}, ord)

Orders == {"asc", "desc"}


(***************************************************************************)
(* The translation policy (self.translation), a collaborator chosen when   *)
(* OsmData is constructed.                                                 *)
(***************************************************************************)
\* merge_tags implementations: "union" always merges to the union of both tag
\* sets, "mark" always merges and adds a tag of its own, "same" merges only
\* equal tag sets, "reject" never merges (returns None).
Policies == {"union", "mark", "same", "reject"}

merge_tags(geometry_type, tags_existing, tags_new) ==
    CASE policy = "union" -> [ok |-> TRUE, tags |-> tags_existing \cup tags_new]
      [] policy = "mark" -> [ok |-> TRUE, tags |-> tags_existing \cup tags_new \cup {"merged"}]
      [] policy = "same" -> [ok |-> tags_existing = tags_new, tags |-> tags_existing]
      [] OTHER -> [ok |-> FALSE, tags |-> {}]

\* get_unique_node_identifier implementations: "coord" returns the tuple
\* (rounded_x, rounded_y), "tagged" returns a value made of the coordinates and
\* the tags, which equals no coordinate tuple.
Identifiers == {"coord", "tagged"}

CoordKey(rx, ry) == [ns |-> "xy", rx |-> rx, ry |-> ry, tags |-> {}]

get_unique_node_identifier(rx, ry, tags) ==
    IF identifier = "coord" THEN CoordKey(rx, ry)
    ELSE [ns |-> "ext", rx |-> rx, ry |-> ry, tags |-> tags]

(***************************************************************************)
(* Element identities (OsmGeometry.id): one counter shared by nodes, ways  *)
(* and relations, decremented for every object constructed.                *)
(***************************************************************************)
NewId(st) == st.idc - 1

\* node.addparent(p), node.removeparent(p) on the parent set of an entity
addparent(e, p) == [e EXCEPT !.parents = @ \cup {p}]
removeparent(e, p) == [e EXCEPT !.parents = @ \ {p}]

\* relation.get_member_role(member): the role of the first entry of the
\* member list that holds the member, "" when there is none
get_member_role(rel, member) ==
    LET hits == {j \in 1..Len(rel.members) : rel.members[j].member = member}
    IN IF hits = {} THEN ""
       ELSE rel.members[CHOOSE j \in hits : \A h \in hits : j <= h].role

(***************************************************************************)
(* The store as a value: the operators below take the store before a call  *)
(* and return the store after it together with the call's result.          *)
(***************************************************************************)
Store == [nodes |-> nodes, index |-> unique_node_index, ways |-> ways,
          relations |-> relations, idc |-> id_counter, log |-> <<>>,
          calls |-> <<>>, checks |-> <<>>, parts |-> split_parts, err |-> FALSE]

\* a duplicate check as the history keeps it: what was built, the candidates,
\* the duplicates found among them, and copies of the lists of the store at
\* that time
LogCheck(st, kind, built, pot, dups, snapshot, ids) ==
    [st EXCEPT !.checks = Append(@, [kind |-> kind, built |-> built, pot |-> pot,
                                     dups |-> dups,
                                     snapshot |-> SubSeq(snapshot, 1, Len(snapshot)),
                                     ids |-> SubSeq(ids, 1, Len(ids))])]

LogMerge(st, kind, target, existing, incoming, m) ==
    [st EXCEPT !.log = Append(@, [kind |-> kind, target |-> target,
                                  existing |-> existing, incoming |-> incoming,
                                  ok |-> m.ok, result |-> m.tags])]

(***************************************************************************)
(* __round_number: int(round(n * 10**rounding_digits)); Python rounds a    *)
(* half to the even neighbour.  h is n * 10**rounding_digits in halves.    *)
(***************************************************************************)
RoundNumber(h) ==
    LET q == h \div 2
    IN IF h % 2 = 0 THEN q
       ELSE IF q % 2 = 0 THEN q ELSE q + 1

(***************************************************************************)
(* __add_node                                                              *)
(***************************************************************************)
\* OsmPoint(x, y, tags) followed by self.__nodes.append(node)
AppendNode(st, x, y, tags) ==
    [st EXCEPT !.nodes = Append(@, [id |-> NewId(st), x |-> x, y |-> y,
                                    tags |-> tags, parents |-> {}]),
               !.idc = NewId(st)]

\* ScanBucket without line 83: the merged tags are not stored in the node
RECURSIVE ScanBucket_KeepTags(_, _, _, _)
ScanBucket_KeepTags(st, bucket, pos, tags) ==
    IF pos > Len(bucket) THEN [st |-> st, hit |-> 0]
    ELSE LET index == bucket[pos]
             duplicate_node == st.nodes[index]
             merged_tags == merge_tags("node", duplicate_node.tags, tags)
             st1 == LogMerge(st, "node", NodeRef(index), duplicate_node.tags, tags,
                             merged_tags)
         IN IF merged_tags.ok
              THEN [st |-> st1, hit |-> index]
              ELSE ScanBucket_KeepTags(st1, bucket, pos + 1, tags)

\* the loop over the bucket of an identifier that is already in the index:
\* the first candidate the policy merges with gets the merged tags and is
\* the result (hit); hit = 0 when the policy merged with none
RECURSIVE ScanBucket(_, _, _, _)
ScanBucket(st, bucket, pos, tags) ==
    IF pos > Len(bucket) THEN [st |-> st, hit |-> 0]
    ELSE LET index == bucket[pos]
             duplicate_node == st.nodes[index]
             merged_tags == merge_tags("node", duplicate_node.tags, tags)
             st1 == LogMerge(st, "node", NodeRef(index), duplicate_node.tags, tags,
                             merged_tags)
         IN IF merged_tags.ok
              THEN [st |-> [st1 EXCEPT !.nodes[index].tags = merged_tags.tags],
                    hit |-> index]
              ELSE ScanBucket(st1, bucket, pos + 1, tags)

\* AddNode with line 87 assigning a new bucket instead of appending to it
AddNode_Overwrite(st, x, y, tags, is_way_member) ==
    LET rx == RoundNumber(x)
        ry == RoundNumber(y)
        unique_node_id == IF is_way_member THEN CoordKey(rx, ry)
                          ELSE get_unique_node_identifier(rx, ry, tags)
        new == Len(st.nodes) + 1
        scan == IF unique_node_id \in DOMAIN st.index
                  THEN ScanBucket(st, st.index[unique_node_id], 1, tags)
                  ELSE [st |-> st, hit |-> 0]
    IN IF scan.hit # 0
         THEN [st |-> scan.st, ret |-> scan.hit]
         ELSE [st |-> [AppendNode(scan.st, x, y, tags) EXCEPT
                         !.index = [k \in DOMAIN st.index \cup {unique_node_id} |->
                                      IF k = unique_node_id THEN <<new>>
                                      ELSE st.index[k]]],
               ret |-> new]

\* AddNode with the coordinate tuple as the identifier of every node, the
\* identity function of the translation left out
AddNode_AlwaysCoord(st, x, y, tags, is_way_member) ==
    LET unique_node_id == CoordKey(RoundNumber(x), RoundNumber(y))
        new == Len(st.nodes) + 1
        scan == IF unique_node_id \in DOMAIN st.index
                  THEN ScanBucket(st, st.index[unique_node_id], 1, tags)
                  ELSE [st |-> st, hit |-> 0]
    IN IF scan.hit # 0
         THEN [st |-> scan.st, ret |-> scan.hit]
         ELSE [st |-> [AppendNode(scan.st, x, y, tags) EXCEPT
                         !.index = [k \in DOMAIN st.index \cup {unique_node_id} |->
                                      IF k = unique_node_id
                                        THEN IF k \in DOMAIN st.index
                                               THEN Append(st.index[k], new)
                                               ELSE <<new>>
                                        ELSE st.index[k]]],
               ret |-> new]

AddNode(st, x, y, tags, is_way_member) ==
    LET rx == RoundNumber(x)
        ry == RoundNumber(y)
        unique_node_id == IF is_way_member THEN CoordKey(rx, ry)
                          ELSE get_unique_node_identifier(rx, ry, tags)
        new == Len(st.nodes) + 1
    IN IF unique_node_id \in DOMAIN st.index
         THEN LET scan == ScanBucket(st, st.index[unique_node_id], 1, tags)
              IN IF scan.hit # 0
                   THEN [st |-> scan.st, ret |-> scan.hit]
                   ELSE [st |-> [AppendNode(scan.st, x, y, tags) EXCEPT
                                   !.index[unique_node_id] = Append(@, new)],
                         ret |-> new]
         ELSE [st |-> [AppendNode(st, x, y, tags) EXCEPT
                         !.index = [k \in DOMAIN st.index \cup {unique_node_id} |->
                                      IF k = unique_node_id THEN <<new>>
                                      ELSE st.index[k]]],
               ret |-> new]

\* A call of __add_node as the handlers make it: the call itself, and a record
\* of it (its identifier, the candidates put to merge_tags, its result, the
\* tags of the result) in the history of the handler.
RecordCall(st, x, y, tags, is_way_member, r) ==
    LET rx == RoundNumber(x)
        ry == RoundNumber(y)
    IN [st |-> [r.st EXCEPT !.calls = Append(@,
                  [key |-> IF is_way_member THEN CoordKey(rx, ry)
                           ELSE get_unique_node_identifier(rx, ry, tags),
                   x |-> x, y |-> y, tags |-> tags, way |-> is_way_member,
                   ret |-> r.ret,
                   created |-> Len(r.st.nodes) > Len(st.nodes),
                   queries |-> SubSeq(r.st.log, Len(st.log) + 1, Len(r.st.log)),
                   tags_after |-> r.st.nodes[r.ret].tags])],
        ret |-> r.ret]

AddNodeCall(st, x, y, tags, is_way_member) ==
    RecordCall(st, x, y, tags, is_way_member, AddNode(st, x, y, tags, is_way_member))

\* __add_way: OsmWay(tags) followed by self.__ways.append(way)
AddWay(st, tags) ==
    [st EXCEPT !.ways = Append(@, [id |-> NewId(st), tags |-> tags, nodes |-> <<>>,
                                   parents |-> {}]),
               !.idc = NewId(st)]

\* __add_relation: OsmRelation(tags) followed by self.__relations.append(relation)
AddRelation(st, tags) ==
    [st EXCEPT !.relations = Append(@, [id |-> NewId(st), tags |-> tags,
                                        members |-> <<>>, parents |-> {}]),
               !.idc = NewId(st)]

\* __parse_point
ParsePoint(st, geom, tags) ==
    AddNodeCall(st, geom.pts[1][1], geom.pts[1][2], tags, FALSE)

(***************************************************************************)
(* __get_ordered_nodes and __verify_duplicate_ways.  ids maps a node to    *)
(* its id, waynodes maps a way to its node list.                           *)
(***************************************************************************)
\* the position of the first node with the lowest id (the loop of lines 116-121)
LowestIndex(ids, ns) ==
    CHOOSE i \in 1..Len(ns) :
        /\ \A j \in 1..Len(ns) : ids[ns[i]] <= ids[ns[j]]
        /\ \A j \in 1..(i - 1) : ids[ns[j]] > ids[ns[i]]

GetOrderedNodes(ids, ns) ==
    LET is_closed == Len(ns) > 2 /\ ids[ns[1]] = ids[ns[Len(ns)]]
    IN IF is_closed
         THEN LET li == LowestIndex(ids, ns)
              IN SubSeq(ns, li, Len(ns) - 1) \o SubSeq(ns, 1, li)
         ELSE ns

RECURSIVE VerifyDuplicateWays(_, _, _, _)
VerifyDuplicateWays(ids, waynodes, potential_duplicate_ways, ns) ==
    IF potential_duplicate_ways = <<>> THEN <<>>
    ELSE LET dupway == Head(potential_duplicate_ways)
             ordered_nodes == GetOrderedNodes(ids, ns)
             rest == VerifyDuplicateWays(ids, waynodes, Tail(potential_duplicate_ways), ns)
         IN IF Len(waynodes[dupway]) = Len(ns)
              THEN LET dupnodes == GetOrderedNodes(ids, waynodes[dupway])
                   IN IF dupnodes = ordered_nodes
                        THEN <<[way |-> dupway, kind |-> "way"]>> \o rest
                        ELSE IF dupnodes = Reverse(ordered_nodes)
                               THEN <<[way |-> dupway, kind |-> "reverse_way"]>> \o rest
                               ELSE rest
              ELSE rest

NodeIds(st) == [i \in 1..Len(st.nodes) |-> st.nodes[i].id]
WayNodes(st) == [w \in 1..Len(st.ways) |-> st.ways[w].nodes]


(***************************************************************************)
(* __parse_linestring                                                      *)
(***************************************************************************)
RECURSIVE LinestringLoop(_, _, _, _, _, _, _)

\* LinestringStep without line 151: the parent ways of the first node are not
\* taken as potential duplicates
LinestringStep_NoSeed(pts, i, prev, ns, pot, ord, r) ==
    LET node == r.st.nodes[r.ret]
    IN IF prev = 0 \/ prev # node.id
         THEN LET pot1 == IF prev = 0 THEN <<>>
                          ELSE IF node.parents = {} /\ pot # <<>> THEN <<>> ELSE pot
              IN LinestringLoop(r.st, pts, i + 1, node.id, Append(ns, r.ret), pot1, ord)
         ELSE LinestringLoop(r.st, pts, i + 1, prev, ns, pot, ord)

\* lines 148-156 without the test of line 149: every node is appended
LinestringStep_KeepRepeats(pts, i, prev, ns, pot, ord, r) ==
    LET node == r.st.nodes[r.ret]
        pot1 == IF prev = 0
                  THEN SetOrder({p.i : p \in {q \in node.parents : q.k = "way"}}, ord)
                  ELSE IF node.parents = {} /\ pot # <<>> THEN <<>> ELSE pot
    IN LinestringLoop(r.st, pts, i + 1, node.id, Append(ns, r.ret), pot1, ord)

\* lines 148-156 for point i, r being what __add_node did and returned (line 147)
LinestringStep(pts, i, prev, ns, pot, ord, r) ==
    LET node == r.st.nodes[r.ret]
    IN IF prev = 0 \/ prev # node.id
         THEN LET pot1 ==
                      IF prev = 0
                        THEN SetOrder({p.i : p \in {q \in node.parents : q.k = "way"}},
                                      ord)
                        ELSE IF node.parents = {} /\ pot # <<>> THEN <<>> ELSE pot
              IN LinestringLoop(r.st, pts, i + 1, node.id, Append(ns, r.ret), pot1, ord)
         ELSE LinestringLoop(r.st, pts, i + 1, prev, ns, pot, ord)

\* the loop over the points (lines 145-156): i is the next point, prev the
\* previous node id (0 for None), ns the nodes so far, pot the potential
\* duplicate ways
LinestringLoop(st, pts, i, prev, ns, pot, ord) ==
    IF i > Len(pts) THEN [st |-> st, nodes |-> ns, pot |-> pot]
    ELSE LinestringStep(pts, i, prev, ns, pot, ord,
                        AddNodeCall(st, pts[i][1], pts[i][2], {}, TRUE))

\* MergeWays without the test of line 162: the first duplicate gets what the
\* policy returned and is the result even when the policy returned None
MergeWays_IgnoreNone(st, duplicate_ways, tags) ==
    IF duplicate_ways = <<>> THEN [st |-> st, hit |-> 0]
    ELSE LET d == Head(duplicate_ways)
             merged_tags == merge_tags(d.kind, st.ways[d.way].tags, tags)
             st1 == LogMerge(st, d.kind, WayRef(d.way), st.ways[d.way].tags, tags,
                             merged_tags)
         IN [st |-> [st1 EXCEPT !.ways[d.way].tags = merged_tags.tags],
             hit |-> d.way]

\* the loop over the duplicate ways (lines 160-164): the first one the policy
\* merges with gets the merged tags and is the result
RECURSIVE MergeWays(_, _, _)
MergeWays(st, duplicate_ways, tags) ==
    IF duplicate_ways = <<>> THEN [st |-> st, hit |-> 0]
    ELSE LET d == Head(duplicate_ways)
             merged_tags == merge_tags(d.kind, st.ways[d.way].tags, tags)
             st1 == LogMerge(st, d.kind, WayRef(d.way), st.ways[d.way].tags, tags,
                             merged_tags)
         IN IF merged_tags.ok
              THEN [st |-> [st1 EXCEPT !.ways[d.way].tags = merged_tags.tags],
                    hit |-> d.way]
              ELSE MergeWays(st1, Tail(duplicate_ways), tags)

\* lines 166-170: the new way, its nodes, and the way as parent of each of them
NewWay(st, ns, tags) ==
    LET w == Len(st.ways) + 1
        st1 == AddWay(st, tags)
    IN [st1 EXCEPT !.ways[w].nodes = ns,
                   !.nodes = [n \in 1..Len(st1.nodes) |->
                                IF \E j \in 1..Len(ns) : ns[j] = n
                                  THEN addparent(st1.nodes[n], WayRef(w))
                                  ELSE st1.nodes[n]]]

\* lines 158-170, loop being the outcome of the loop over the points
LinestringResult(tags, loop) ==
    LET duplicate_ways == VerifyDuplicateWays(NodeIds(loop.st), WayNodes(loop.st),
                                              loop.pot, loop.nodes)
        merged == MergeWays(LogCheck(loop.st, "way", loop.nodes, loop.pot,
                                     duplicate_ways, WayNodes(loop.st),
                                     NodeIds(loop.st)),
                            duplicate_ways, tags)
    IN IF merged.hit # 0
         THEN [st |-> merged.st, ret |-> WayRef(merged.hit)]
         ELSE [st |-> NewWay(merged.st, loop.nodes, tags),
               ret |-> WayRef(Len(merged.st.ways) + 1)]

ParseLinestring(st, pts, tags, ord) ==
    LinestringResult(tags, LinestringLoop(st, pts, 1, 0, <<>>, <<>>, ord))

(***************************************************************************)
(* __parse_polygon                                                         *)
(***************************************************************************)
LineTypes == {"LineString", "LinearRing"}

Entity(st, ref) ==
    CASE ref.k = "node" -> st.nodes[ref.i]
      [] ref.k = "way" -> st.ways[ref.i]
      [] OTHER -> st.relations[ref.i]

\* the loop over the interior rings (lines 210-216)
RECURSIVE InteriorLoop(_, _, _, _, _, _)

\* lines 212-216 for ring i, r being what __parse_linestring did and returned
InteriorStep(rings, i, members, pot, ord, r) ==
    LET interior == Entity(r.st, r.ret)
        pot1 == IF interior.parents = {} /\ pot # <<>> THEN <<>> ELSE pot
    IN InteriorLoop(r.st, rings, i + 1,
                    Append(members, [member |-> r.ret, role |-> "inner"]), pot1, ord)

InteriorLoop(st, rings, i, members, pot, ord) ==
    IF i > Len(rings) THEN [st |-> st, members |-> members, pot |-> pot]
    ELSE InteriorStep(rings, i, members, pot, ord,
                      ParseLinestring(st, rings[i].pts, {}, ord))

\* the pairs of a member list, their order left out
Pairs(members) == {members[j] : j \in 1..Len(members)}

\* __verify_duplicate_relations comparing the member lists as sets of pairs
RECURSIVE VerifyDuplicateRelations_Unordered(_, _, _)
VerifyDuplicateRelations_Unordered(st, potential_duplicate_relations, members) ==
    IF potential_duplicate_relations = <<>> THEN <<>>
    ELSE LET duprelation == Head(potential_duplicate_relations)
             rest == VerifyDuplicateRelations_Unordered(
                         st, Tail(potential_duplicate_relations), members)
         IN IF Pairs(st.relations[duprelation].members) = Pairs(members)
              THEN <<duprelation>> \o rest
              ELSE rest

\* __verify_duplicate_relations
RECURSIVE VerifyDuplicateRelations(_, _, _)
VerifyDuplicateRelations(st, potential_duplicate_relations, members) ==
    IF potential_duplicate_relations = <<>> THEN <<>>
    ELSE LET duprelation == Head(potential_duplicate_relations)
             rest == VerifyDuplicateRelations(st, Tail(potential_duplicate_relations),
                                              members)
         IN IF st.relations[duprelation].members = members
              THEN <<duprelation>> \o rest
              ELSE rest

\* the loop over the duplicate relations (lines 221-225)
RECURSIVE MergeRelations(_, _, _)
MergeRelations(st, duplicate_relations, tags) ==
    IF duplicate_relations = <<>> THEN [st |-> st, hit |-> 0]
    ELSE LET d == Head(duplicate_relations)
             merged_tags == merge_tags("relation", st.relations[d].tags, tags)
             st1 == LogMerge(st, "relation", RelRef(d), st.relations[d].tags, tags,
                             merged_tags)
         IN IF merged_tags.ok
              THEN [st |-> [st1 EXCEPT !.relations[d].tags = merged_tags.tags],
                    hit |-> d]
              ELSE MergeRelations(st1, Tail(duplicate_relations), tags)

\* m[0].addparent(relation) for every m of members
RECURSIVE AddParents(_, _, _)
AddParents(st, members, parent) ==
    IF members = <<>> THEN st
    ELSE LET m == Head(members).member
             st1 == CASE m.k = "node" ->
                           [st EXCEPT !.nodes[m.i] = addparent(@, parent)]
                      [] m.k = "way" ->
                           [st EXCEPT !.ways[m.i] = addparent(@, parent)]
                      [] OTHER ->
                           [st EXCEPT !.relations[m.i] = addparent(@, parent)]
         IN AddParents(st1, Tail(members), parent)

\* lines 227-231: the new relation, the relation as parent of each member
NewRelation(st, members, tags) ==
    LET r == Len(st.relations) + 1
        st1 == AddParents(AddRelation(st, tags), members, RelRef(r))
    IN [st1 EXCEPT !.relations[r].members = members]

\* lines 218-231, loop being the outcome of the loop over the interior rings
PolygonResult(tags, loop) ==
    LET duplicate_relations ==
            VerifyDuplicateRelations(loop.st, loop.pot, loop.members)
        merged == MergeRelations(
                      LogCheck(loop.st, "relation", loop.members, loop.pot,
                               duplicate_relations,
                               [r \in 1..Len(loop.st.relations) |->
                                  loop.st.relations[r].members], <<>>),
                      duplicate_relations, tags)
    IN IF merged.hit # 0
         THEN [st |-> merged.st, ret |-> RelRef(merged.hit)]
         ELSE [st |-> NewRelation(merged.st, loop.members, tags),
               ret |-> RelRef(Len(merged.st.relations) + 1)]

\* lines 200-231, ext being what __parse_linestring did and returned for the
\* exterior ring (line 199)
PolygonRings(rings, tags, ord, ext) ==
    LET exterior == Entity(ext.st, ext.ret)
        pot == SetOrder({p.i : p \in {q \in exterior.parents :
                     /\ q.k = "relation"
                     /\ get_member_role(ext.st.relations[q.i], ext.ret) = "outer"}},
                        ord)
    IN PolygonResult(tags, InteriorLoop(ext.st, rings, 2,
                                        <<[member |-> ext.ret, role |-> "outer"]>>,
                                        pot, ord))

ParsePolygon(st, geom, tags, ord) ==
    LET rings == geom.parts
    IN IF Len(rings) = 0
         THEN [st |-> st, ret |-> NoneRef]
         ELSE IF Len(rings) = 1 /\ Len(rings[1].pts) <= max_points_in_way
           THEN ParseLinestring(st, rings[1].pts, tags, ord)
           ELSE IF rings[1].type \notin LineTypes
             THEN [st |-> st, ret |-> NoneRef]
             ELSE PolygonRings(rings, tags, ord,
                               ParseLinestring(st, rings[1].pts, {}, ord))


(***************************************************************************)
(* __parse_collection and __parse_geometry.  A geometry is a record        *)
(* [type, pts, parts]: pts are the points of a point or line geometry,     *)
(* parts the sub-geometries of a polygon (its rings) or a collection.      *)
(* err stands for the AttributeError Python raises when a method is called *)
(* on None or on a list; the statements after the failing one do not run.  *)
(***************************************************************************)
Raise(st) == [st EXCEPT !.err = TRUE]

\* relation.members.append((member, role)) preceded by member.addparent(relation)
AppendMember(st, r, member, role) ==
    [AddParents(st, <<[member |-> member, role |-> role]>>, RelRef(r))
       EXCEPT !.relations[r].members = Append(@, [member |-> member, role |-> role])]

\* relation.members.append((member, role)) without member.addparent(relation)
AppendWay_NoParent(r, role, parsed) ==
    [parsed.st EXCEPT !.relations[r].members =
                          Append(@, [member |-> parsed.ret, role |-> role])]

\* the loop over the interior rings of one part of a multipolygon (lines 246-250)
\* member.addparent(relation) and relation.members.append((member, role)) for
\* the way __parse_linestring returned
AppendWay(r, role, parsed) == AppendMember(parsed.st, r, parsed.ret, role)

RECURSIVE MultiInteriorLoop(_, _, _, _, _)
MultiInteriorLoop(st, r, rings, i, ord) ==
    IF i > Len(rings) THEN st
    ELSE MultiInteriorLoop(
             AppendWay(r, "inner", ParseLinestring(st, rings[i].pts, {}, ord)),
             r, rings, i + 1, ord)

\* the loop over the parts of a multipolygon (lines 241-250); a part without
\* rings makes GetGeometryRef(0) None and the parse of it fail
RECURSIVE MultiPolygonLoop(_, _, _, _, _)
MultiPolygonLoop(st, r, polygons, p, ord) ==
    IF p > Len(polygons) THEN st
    ELSE LET rings == polygons[p].parts
         IN IF Len(rings) = 0 THEN Raise(st)
            ELSE MultiPolygonLoop(
                     MultiInteriorLoop(
                         AppendWay(r, "outer",
                                   ParseLinestring(st, rings[1].pts, {}, ord)),
                         r, rings, 2, ord),
                     r, polygons, p + 1, ord)

\* the loop over the parts of a multilinestring (lines 256-257)
RECURSIVE MultiLinestringLoop(_, _, _, _, _, _)

\* line 257 for linestring i, r being what __parse_linestring did and returned
MultiLinestringStep(lines, i, tags, geometries, ord, r) ==
    MultiLinestringLoop(r.st, lines, i + 1, tags, Append(geometries, r.ret), ord)

MultiLinestringLoop(st, lines, i, tags, geometries, ord) ==
    IF i > Len(lines) THEN [st |-> st, ret |-> geometries]
    ELSE MultiLinestringStep(lines, i, tags, geometries, ord,
                             ParseLinestring(st, lines[i].pts, tags, ord))

RECURSIVE ParseGeometry(_, _, _, _)

\* [ entity ]: the list holding the one entity a parser returned
Listed(r) == [st |-> r.st, ret |-> <<r.ret>>]

\* osmgeometries.append(self.__parse_point(...)) of line 274
ListedNode(r) == [st |-> r.st, ret |-> <<NodeRef(r.ret)>>]

ParseCollection(st, geom, tags, ord) ==
    IF geom.type = "MultiPolygon"
      THEN IF Len(geom.parts) > 1
             THEN LET r == Len(st.relations) + 1
                  IN [st |-> MultiPolygonLoop(AddRelation(st, tags), r, geom.parts, 1, ord),
                      ret |-> <<RelRef(r)>>]
             ELSE IF Len(geom.parts) = 0
                    THEN [st |-> Raise(st), ret |-> <<>>]
                    ELSE Listed(ParsePolygon(st, geom.parts[1], tags, ord))
      ELSE IF geom.type = "MultiLineString"
        THEN MultiLinestringLoop(st, geom.parts, 1, tags, <<>>, ord)
        ELSE LET r == Len(st.relations) + 1
                 st1 == AddRelation(st, tags)
             IN IF Len(geom.parts) = 0
                  THEN [st |-> st1, ret |-> <<RelRef(r)>>]
                  \* member is the list __parse_geometry returns: member.addparent
                  \* fails on the first sub-geometry, after it has been parsed
                  ELSE [st |-> Raise(ParseGeometry(st1, geom.parts[1], {}, ord).st),
                        ret |-> <<>>]

CollectionTypes == {"MultiPoint", "MultiLineString", "MultiPolygon", "GeometryCollection"}

ParseGeometry(st, geom, tags, ord) ==
    IF geom.type = "Point"
      THEN ListedNode(ParsePoint(st, geom, tags))
      ELSE IF geom.type \in LineTypes
        THEN Listed(ParseLinestring(st, geom.pts, tags, ord))
        ELSE IF geom.type = "Polygon"
          THEN Listed(ParsePolygon(st, geom, tags, ord))
          ELSE IF geom.type \in CollectionTypes
            THEN ParseCollection(st, geom, tags, ord)
            ELSE [st |-> st, ret |-> <<>>]

\* the calls of translation.process_feature_post (lines 312-313), one for
\* every result that is not None
RECURSIVE PostCalls(_)
PostCalls(osmgeometries) ==
    IF osmgeometries = <<>> THEN <<>>
    ELSE IF Head(osmgeometries) = NoneRef THEN PostCalls(Tail(osmgeometries))
         ELSE <<Head(osmgeometries)>> \o PostCalls(Tail(osmgeometries))

(***************************************************************************)
(* __split_way, __split_way_in_relation, split_long_ways                   *)
(***************************************************************************)
\* new_nodes of line 317: chunk c (from 1) is way.nodes[i:i + max_points_in_way]
\* for the c-th i of range(0, len(way.nodes), max_points_in_way - 1)
ChunkCount(n) == IF n = 0 THEN 0 ELSE ((n - 1) \div (max_points_in_way - 1)) + 1

\* chunks that start where the previous one ended, with no node in common
Chunk_NoOverlap(ns, c) ==
    LET i == (c - 1) * max_points_in_way
    IN SubSeq(ns, i + 1, Min(i + max_points_in_way, Len(ns)))

Chunk(ns, c) ==
    LET i == (c - 1) * (max_points_in_way - 1)
    IN SubSeq(ns, i + 1, Min(i + max_points_in_way, Len(ns)))

\* the body of the loop of lines 321-327 for the chunks c, c+1, ... of way w;
\* chunk c becomes the way at position first + c - 2 of self.__ways
RECURSIVE SplitLoop(_, _, _, _, _, _)
SplitLoop(st, w, new_nodes, ids, c, first) ==
    IF c > Len(new_nodes) THEN st
    ELSE LET nw == first + c - 2
             chunk == new_nodes[c]
             st1 == [st EXCEPT
                       !.ways = Append(@, [id |-> ids[c], tags |-> st.ways[w].tags,
                                           nodes |-> chunk, parents |-> {}]),
                       !.nodes = [n \in 1..Len(st.nodes) |->
                                    IF \E j \in 1..Len(chunk) : chunk[j] = n
                                      THEN addparent(removeparent(st.nodes[n], WayRef(w)),
                                                     WayRef(nw))
                                      ELSE st.nodes[n]]]
         IN SplitLoop(st1, w, new_nodes, ids, c + 1, first)

SplitWay(st, w) ==
    LET ns == st.ways[w].nodes
        new_nodes == [c \in 1..ChunkCount(Len(ns)) |-> Chunk(ns, c)]
        \* OsmWay(way.tags) for every chunk but the first, constructed in order
        ids == [c \in 1..Len(new_nodes) |-> IF c = 1 THEN st.ways[w].id
                                             ELSE st.idc - (c - 1)]
        first == Len(st.ways) + 1
        st1 == [st EXCEPT !.idc = st.idc - (Len(new_nodes) - 1),
                          !.ways[w].nodes = new_nodes[1]]
    IN [st |-> SplitLoop(st1, w, new_nodes, ids, 2, first),
        ret |-> <<w>> \o [c \in 1..(Len(new_nodes) - 1) |-> first + c - 1]]

\* __split_way_in_relation: the loop over way_parts[1:]
RECURSIVE SplitWayInRelationLoop(_, _, _, _, _)
SplitWayInRelationLoop(st, rel, way_parts, i, way_role) ==
    IF i > Len(way_parts) THEN st
    ELSE SplitWayInRelationLoop(
             AppendMember(st, rel, WayRef(way_parts[i]), way_role),
             rel, way_parts, i + 1, way_role)

SplitWayInRelation(st, rel, way_parts) ==
    LET way_role == get_member_role(st.relations[rel], WayRef(way_parts[1]))
    IN SplitWayInRelationLoop(st, rel, way_parts, 2, way_role)

\* the loop over way.get_parents() (lines 349-350)
RECURSIVE SplitRelationsLoop(_, _, _)
SplitRelationsLoop(st, rels, way_parts) ==
    IF rels = <<>> THEN st
    ELSE SplitRelationsLoop(SplitWayInRelation(st, Head(rels), way_parts), Tail(rels),
                            way_parts)

\* the (relation, role) pairs under which an entity is a member
MemberRoles(st, member) ==
    UNION {{[rel |-> q, role |-> st.relations[q].members[j].role] :
              j \in {i \in 1..Len(st.relations[q].members) :
                        st.relations[q].members[i].member = member}} :
           q \in 1..Len(st.relations)}

\* the loop over self.__ways (lines 346-350); the list grows while it is
\* iterated, and the iteration reaches the ways appended by __split_way
RECURSIVE SplitLongWaysLoop(_, _, _)

\* lines 349-350 for way w, r being what __split_way did and returned (line
\* 348), st the store before it
SplitLongWaysStep(st, w, ord, r) ==
    LET rels == SetOrder({p.i : p \in r.st.ways[w].parents}, ord)
        st1 == [r.st EXCEPT !.parts = Append(@,
                  [way |-> w, orig |-> st.ways[w].nodes, parts |-> r.ret,
                   roles |-> MemberRoles(st, WayRef(w))])]
    IN SplitLongWaysLoop(SplitRelationsLoop(st1, rels, r.ret), w + 1, ord)

\* line 346 with >= for >: a way of exactly max_points_in_way nodes is split
SplitLongWaysLoop_AtLimit(st, w, ord) ==
    IF w > Len(st.ways) THEN st
    ELSE IF Len(st.ways[w].nodes) >= max_points_in_way
           THEN SplitLongWaysStep(st, w, ord, SplitWay(st, w))
           ELSE SplitLongWaysLoop(st, w + 1, ord)

SplitLongWaysLoop(st, w, ord) ==
    IF w > Len(st.ways) THEN st
    ELSE IF Len(st.ways[w].nodes) > max_points_in_way
           THEN SplitLongWaysStep(st, w, ord, SplitWay(st, w))
           ELSE SplitLongWaysLoop(st, w + 1, ord)


(***************************************************************************)
(* Inputs: the features handed to add_feature.                             *)
(***************************************************************************)
\* coordinates in half-units: PA and PA2 round to the same key, PB and PC to
\* two other keys
PA == <<0, 0>>
PA2 == <<1, 0>>
PB == <<2, 0>>
PC == <<2, 3>>

Point(p) == [type |-> "Point", pts |-> <<p>>, parts |-> <<>>]
LineString(ps) == [type |-> "LineString", pts |-> ps, parts |-> <<>>]
LinearRing(ps) == [type |-> "LinearRing", pts |-> ps, parts |-> <<>>]
Polygon(rings) == [type |-> "Polygon", pts |-> <<>>, parts |-> rings]
Multi(type, parts) == [type |-> type, pts |-> <<>>, parts |-> parts]
NoGeometry == [type |-> "None", pts |-> <<>>, parts |-> <<>>]

\* the features of the runs that build ways and relations
Geometries ==
    { LineString(<<PA, PB>>), LineString(<<PB, PA>>),
      LineString(<<PA, PB, PC>>), LineString(<<PA, PB, PC, PA, PB>>),
      Polygon(<<>>),
      Polygon(<<LinearRing(<<PA, PB, PA>>)>>),
      Polygon(<<LinearRing(<<PB, PA, PB>>)>>),
      Polygon(<<LinearRing(<<PA, PB, PC, PA>>), LinearRing(<<PA, PB, PA>>)>>),
      Polygon(<<LinearRing(<<PA, PB, PA>>), LinearRing(<<PA, PB, PA>>)>>),
      Polygon(<<Point(PA), LinearRing(<<PA, PB, PA>>)>>),
      Multi("MultiPolygon", <<Polygon(<<LinearRing(<<PA, PB, PA>>)>>)>>),
      Multi("MultiPolygon", <<Polygon(<<LinearRing(<<PA, PB, PC, PA>>),
                                        LinearRing(<<PA, PB, PA>>)>>),
                              Polygon(<<LinearRing(<<PB, PC, PB>>)>>)>>),
      Multi("MultiLineString", <<LineString(<<PA, PB>>), LineString(<<PB, PC>>)>>),
      Multi("MultiPoint", <<Point(PA), Point(PB)>>),
      Multi("GeometryCollection", <<>>),
      Multi("Unknown", <<>>), NoGeometry }

\* the features of the runs that intern nodes: points and lines on coincident
\* and on distinct coordinates
NodeGeometries ==
    { Point(PA), Point(PA2), Point(PB),
      LineString(<<>>), LineString(<<PA>>), LineString(<<PA, PA2>>),
      LineString(<<PA, PB>>), LineString(<<PA, PA2, PA>>),
      LineString(<<PA, PB, PA2>>), NoGeometry }

TagSets == {{"t1"}, {"t2"}}

Limits == {1, 2, 3}

(***************************************************************************)
(* The state machine.                                                      *)
(***************************************************************************)
Init ==
    /\ max_points_in_way \in Limits
    /\ policy \in Policies
    /\ identifier \in Identifiers
    /\ nodes = <<>>
    /\ unique_node_index = <<>>
    /\ ways = <<>>
    /\ relations = <<>>
    /\ id_counter = 0
    /\ hist = <<>>
    /\ split_parts = <<>>
    /\ split_runs = 0
    /\ raised = FALSE
    /\ pc = "idle"
    /\ pending = FALSE
    /\ writer_calls = <<>>
    /\ outputs = 0
    /\ ring = <<>>

Idle == pc = "idle" /\ ~raised

SetStore(st) ==
    /\ nodes' = st.nodes
    /\ unique_node_index' = st.index
    /\ ways' = st.ways
    /\ relations' = st.relations
    /\ id_counter' = st.idc
    /\ split_parts' = st.parts

\* add_feature.  A feature the translation filters out, or one without
\* geometry or without tags (NoGeometry), takes one of the early returns of
\* lines 293-302.
\* the store and the history after a call of add_feature, r being what
\* __parse_geometry did and returned (line 309)
FeatureDone(geom, tags, r) ==
    /\ SetStore(r.st)
    /\ raised' = r.st.err
    /\ split_runs' = 0
    /\ hist' = Append(hist, [geom |-> geom, tags |-> tags, ret |-> r.ret,
                             log |-> r.st.log, calls |-> r.st.calls,
                             checks |-> r.st.checks,
                             post |-> IF r.st.err THEN <<>> ELSE PostCalls(r.ret)])

AddFeature(geom, tags, ord) ==
    /\ Idle
    /\ Len(hist) < MaxFeatures
    /\ FeatureDone(geom, tags, IF geom = NoGeometry THEN [st |-> Store, ret |-> <<>>]
                               ELSE ParseGeometry(Store, geom, tags, ord))
    /\ UNCHANGED <<config_vars, output_vars, ring>>

\* split_long_ways without the early return of lines 340-342: with a limit of 1
\* the range() of line 317 has step 0 and raises ValueError at the first way
\* that has more nodes than the limit
SplitLongWays_NoGuard(ord) ==
    /\ Idle
    /\ split_runs < MaxSplitRuns
    /\ split_runs' = split_runs + 1
    /\ IF max_points_in_way < 2
         THEN /\ raised' = (\E w \in 1..Len(ways) :
                                Len(ways[w].nodes) > max_points_in_way)
              /\ SetStore(Store)
         ELSE /\ raised' = raised
              /\ SetStore(SplitLongWaysLoop(Store, 1, ord))
    /\ UNCHANGED <<config_vars, hist, output_vars, ring>>

\* split_long_ways
SplitLongWays(ord) ==
    /\ Idle
    /\ split_runs < MaxSplitRuns
    /\ split_runs' = split_runs + 1
    /\ SetStore(IF max_points_in_way < 2 THEN Store
                ELSE SplitLongWaysLoop(Store, 1, ord))
    /\ UNCHANGED <<config_vars, hist, raised, output_vars, ring>>

(***************************************************************************)
(* output(): one action for every call it makes.  ok says whether the      *)
(* collaborator returns or raises.                                         *)
(***************************************************************************)
WriteSteps == {"write_header", "write_nodes", "write_ways", "write_relations",
               "write_footer"}

OutputStep(call, next, ok) ==
    /\ pc = call
    /\ writer_calls' = Append(writer_calls, call)
    /\ pc' = IF ok THEN next
             ELSE IF call \in WriteSteps THEN "close" ELSE "failed"
    /\ pending' = (pending \/ (~ok /\ call \in WriteSteps))
    /\ UNCHANGED <<config_vars, store_vars, hist, split_runs, raised, outputs, ring>>

\* line 379: output() is entered and calls translation.process_output
ProcessOutput(ok) ==
    /\ ~raised
    /\ pc \in {"idle", "done", "failed"}
    /\ outputs < MaxOutputs
    /\ outputs' = outputs + 1
    /\ writer_calls' = <<"process_output">>
    /\ pending' = FALSE
    /\ pc' = IF ok THEN "open" ELSE "failed"
    /\ UNCHANGED <<config_vars, store_vars, hist, split_runs, raised, ring>>

\* DataWriterContextManager.__enter__
Open(ok) == OutputStep("open", "write_header", ok)
WriteHeader(ok) == OutputStep("write_header", "write_nodes", ok)
WriteNodes(ok) == OutputStep("write_nodes", "write_ways", ok)
\* WriteWays followed by write_footer: line 385 left out
WriteWays_NoRelations(ok) == OutputStep("write_ways", "write_footer", ok)
WriteWays(ok) == OutputStep("write_ways", "write_relations", ok)
WriteRelations(ok) == OutputStep("write_relations", "write_footer", ok)
WriteFooter(ok) == OutputStep("write_footer", "close", ok)

\* close() as the last statement of the block instead of __exit__: it is not
\* called after a failed write step
Close_OnSuccessOnly(ok) ==
    /\ pc = "close"
    /\ ~pending
    /\ writer_calls' = Append(writer_calls, "close")
    /\ pc' = IF ok THEN "done" ELSE "failed"
    /\ UNCHANGED <<config_vars, store_vars, hist, split_runs, raised, pending, outputs, ring>>

\* DataWriterContextManager.__exit__: close, then the pending exception, if
\* any, leaves output()
Close(ok) ==
    /\ pc = "close"
    /\ writer_calls' = Append(writer_calls, "close")
    /\ pc' = IF ok /\ ~pending THEN "done" ELSE "failed"
    /\ UNCHANGED <<config_vars, store_vars, hist, split_runs, raised, pending, outputs, ring>>

Next ==
    \/ \E geom \in Geometries, tags \in TagSets, ord \in Orders :
           AddFeature(geom, tags, ord)
    \/ \E ord \in Orders : SplitLongWays(ord)

Spec == Init /\ [][Next]_vars

\* runs that intern nodes
NextNodes ==
    \/ \E geom \in NodeGeometries, tags \in TagSets, ord \in Orders :
           AddFeature(geom, tags, ord)

InitNodes == Init /\ max_points_in_way = 3

SpecNodes == InitNodes /\ [][NextNodes]_vars

\* runs of output() on a store built from a few features
NextOutput ==
    \/ \E geom \in {Point(PA), LineString(<<PA, PB, PC>>)}, ord \in Orders :
           AddFeature(geom, {"t1"}, ord)
    \/ \E ord \in Orders : SplitLongWays(ord)
    \/ \E ok \in BOOLEAN : ProcessOutput(ok)
    \/ \E ok \in BOOLEAN : Open(ok)
    \/ \E ok \in BOOLEAN : WriteHeader(ok)
    \/ \E ok \in BOOLEAN : WriteNodes(ok)
    \/ \E ok \in BOOLEAN : WriteWays(ok)
    \/ \E ok \in BOOLEAN : WriteRelations(ok)
    \/ \E ok \in BOOLEAN : WriteFooter(ok)
    \/ \E ok \in BOOLEAN : Close(ok)

InitOutput == Init /\ max_points_in_way = 2 /\ policy = "union" /\ identifier = "coord"

SpecOutput == InitOutput /\ [][NextOutput]_vars

\* the calls output() makes once it has been entered: every one of them returns
\* or raises, and output() then goes on to its next statement
OutputRun ==
    \/ \E ok \in BOOLEAN : Open(ok)
    \/ \E ok \in BOOLEAN : WriteHeader(ok)
    \/ \E ok \in BOOLEAN : WriteNodes(ok)
    \/ \E ok \in BOOLEAN : WriteWays(ok)
    \/ \E ok \in BOOLEAN : WriteRelations(ok)
    \/ \E ok \in BOOLEAN : WriteFooter(ok)
    \/ \E ok \in BOOLEAN : Close(ok)

\* runs of output() that are not abandoned halfway
SpecOutputLive == InitOutput /\ [][NextOutput]_vars /\ WF_vars(OutputRun)


\* runs that add polygons and the lines along their rings, under the policy
\* that merges every duplicate and returns the union of the tags
PolygonGeometries ==
    { Polygon(<<LinearRing(<<PA, PB, PA>>)>>),
      Polygon(<<LinearRing(<<PB, PA, PB>>)>>),
      Polygon(<<LinearRing(<<PA, PB, PC>>)>>),
      Polygon(<<LinearRing(<<PA, PA2, PB>>)>>),
      Polygon(<<LinearRing(<<PA, PB, PC, PA>>)>>),
      Polygon(<<LinearRing(<<PA, PB, PA>>), LinearRing(<<PB, PC, PB>>)>>),
      LineString(<<PA, PB, PA>>), LineString(<<PA, PB, PC>>), Point(PA) }

NextPolygons ==
    \/ \E geom \in PolygonGeometries, tags \in TagSets, ord \in Orders :
           AddFeature(geom, tags, ord)
    \/ \E ord \in Orders : SplitLongWays(ord)

InitPolygons == Init /\ policy = "union" /\ max_points_in_way \in {2, 3}

SpecPolygons == InitPolygons /\ [][NextPolygons]_vars

\* runs that build relations: polygons with several rings, multipolygons,
\* polygons without a usable exterior ring
RingA == LinearRing(<<PA, PB, PA>>)
RingB == LinearRing(<<PB, PC, PB>>)
RingC == LinearRing(<<PA, PC, PA>>)

RelationGeometries ==
    { Polygon(<<RingA, RingB, RingC>>), Polygon(<<RingA, RingC, RingB>>),
      Polygon(<<RingA, RingB>>),
      Multi("MultiPolygon", <<Polygon(<<RingA, RingB>>), Polygon(<<RingC>>)>>),
      Multi("MultiPolygon", <<Polygon(<<RingA, RingB>>)>>),
      Polygon(<<>>), Polygon(<<Point(PA), RingA>>), Polygon(<<Point(PA)>>) }

NextRelations ==
    \/ \E geom \in RelationGeometries, tags \in TagSets, ord \in Orders :
           AddFeature(geom, tags, ord)
    \/ \E ord \in Orders : SplitLongWays(ord)

InitRelations == Init /\ identifier = "coord" /\ max_points_in_way \in {1, 3}

SpecRelations == InitRelations /\ [][NextRelations]_vars

\* runs that split ways: open and closed lines of 2 to 5 points, a line with
\* two coincident points, and a ring that is a member of a relation
SplitGeometries ==
    { LineString(<<PA, PB>>), LineString(<<PB, PA>>),
      LineString(<<PA, PA2, PB, PC>>),
      LineString(<<PA, PB, PC, PA>>), LineString(<<PA, PB, PC, PA, PB>>),
      Polygon(<<LinearRing(<<PA, PB, PC, PA>>)>>) }

NextSplit ==
    \/ \E geom \in SplitGeometries, tags \in TagSets, ord \in Orders :
           AddFeature(geom, tags, ord)
    \/ \E ord \in Orders : SplitLongWays(ord)

InitSplit == Init /\ identifier = "coord" /\ policy \in {"union", "reject"}

SpecSplit == InitSplit /\ [][NextSplit]_vars

\* runs that put nodes, ways and relations to the merge policy: a point on a
\* way vertex, a line and its reverse, a polygon with two rings
MergeGeometries ==
    { Point(PA), LineString(<<PA, PB>>), LineString(<<PB, PA>>),
      Polygon(<<RingA, RingB>>) }

NextMerge ==
    \E geom \in MergeGeometries, tags \in TagSets, ord \in Orders :
        AddFeature(geom, tags, ord)

InitMerge == Init /\ identifier = "coord" /\ max_points_in_way = 3

SpecMerge == InitMerge /\ [][NextMerge]_vars

(***************************************************************************)
(* __get_ordered_nodes and __verify_duplicate_ways on their own: the node  *)
(* list of a way under construction (ring.nodes) is compared with a way    *)
(* whose node list (ring.dupnodes) is a rotation, a reversed rotation or a *)
(* copy of it.  Node i has the id -i.                                      *)
(***************************************************************************)
RingIds == [i \in 1..MaxRingIds |-> 0 - i]

\* node lists without equal neighbours, as __parse_linestring builds them
RingInputs ==
    UNION {{s \in [1..n -> 1..MaxRingIds] : \A i \in 1..(n - 1) : s[i] # s[i + 1]} :
           n \in 1..MaxRingLen}

IsClosed(ns) == Len(ns) > 2 /\ ns[1] = ns[Len(ns)]

\* the closed list that starts k nodes further along the ring
Rotate(ns, k) ==
    LET n == Len(ns) - 1
    IN [i \in 1..(n + 1) |-> ns[((i - 1 + k) % n) + 1]]

RingCheck(how, dupnodes) ==
    ring' = [how |-> how, nodes |-> ring.nodes, dupnodes |-> dupnodes,
             ordered |-> GetOrderedNodes(RingIds, ring.nodes),
             dupordered |-> GetOrderedNodes(RingIds, dupnodes),
             verdict |-> VerifyDuplicateWays(RingIds, <<dupnodes>>, <<1>>, ring.nodes)]

RingRotated(k) ==
    /\ ring.how = "input"
    /\ IsClosed(ring.nodes)
    /\ k \in 0..(Len(ring.nodes) - 2)
    /\ RingCheck("rotated", Rotate(ring.nodes, k))
    /\ UNCHANGED <<config_vars, store_vars, hist, split_runs, raised, output_vars>>

RingReversed(k) ==
    /\ ring.how = "input"
    /\ IsClosed(ring.nodes)
    /\ k \in 0..(Len(ring.nodes) - 2)
    /\ RingCheck("reversed", Reverse(Rotate(ring.nodes, k)))
    /\ UNCHANGED <<config_vars, store_vars, hist, split_runs, raised, output_vars>>

OpenCopied ==
    /\ ring.how = "input"
    /\ ~IsClosed(ring.nodes)
    /\ RingCheck("copied", ring.nodes)
    /\ UNCHANGED <<config_vars, store_vars, hist, split_runs, raised, output_vars>>

OpenReversed ==
    /\ ring.how = "input"
    /\ ~IsClosed(ring.nodes)
    /\ RingCheck("open_reversed", Reverse(ring.nodes))
    /\ UNCHANGED <<config_vars, store_vars, hist, split_runs, raised, output_vars>>

InitRing ==
    /\ max_points_in_way = 3
    /\ policy = "union"
    /\ identifier = "coord"
    /\ nodes = <<>>
    /\ unique_node_index = <<>>
    /\ ways = <<>>
    /\ relations = <<>>
    /\ id_counter = 0
    /\ hist = <<>>
    /\ split_parts = <<>>
    /\ split_runs = 0
    /\ raised = FALSE
    /\ pc = "idle"
    /\ pending = FALSE
    /\ writer_calls = <<>>
    /\ outputs = 0
    /\ ring \in {[how |-> "input", nodes |-> s, dupnodes |-> <<>>, ordered |-> <<>>,
                  dupordered |-> <<>>, verdict |-> <<>>] : s \in RingInputs}

NextRing ==
    \/ \E k \in 0..MaxRingLen : RingRotated(k)
    \/ \E k \in 0..MaxRingLen : RingReversed(k)
    \/ OpenCopied
    \/ OpenReversed

SpecRing == InitRing /\ [][NextRing]_vars


(***************************************************************************)
(* Properties.                                                             *)
(***************************************************************************)
\* the __add_node calls of all add_feature calls so far, in call order
RECURSIVE CallsUpTo(_)
CallsUpTo(n) == IF n = 0 THEN <<>> ELSE CallsUpTo(n - 1) \o hist[n].calls

AllCalls == CallsUpTo(Len(hist))

Accepting == policy \in {"union", "mark"}

SameInput(c, d) == c.x = d.x /\ c.y = d.y /\ c.tags = d.tags

\* C1: under a merge policy that always accepts, when a way-context intern
\* of (x, y, tags) creates a node, every later way-context intern of the same
\* (x, y, tags) returns that node and creates none, the tags of the node
\* after it are what merge_tags returned, and two such interns in a row leave
\* the node list one node longer than it was before them.
C1_InternTwice ==
    Accepting =>
        \A i \in 1..Len(AllCalls), j \in 1..Len(AllCalls) :
            LET c == AllCalls[i]
                d == AllCalls[j]
            IN (i < j /\ c.way /\ d.way /\ SameInput(c, d) /\ c.created) =>
                 /\ d.ret = c.ret
                 /\ ~d.created
                 /\ Len(d.queries) = 1
                 /\ d.queries[1].ok
                 /\ d.queries[1].target = NodeRef(c.ret)
                 /\ d.tags_after = d.queries[1].result
                 /\ (j = i + 1 =>
                       Cardinality({k \in 1..j : AllCalls[k].created})
                         = Cardinality({k \in 1..(i - 1) : AllCalls[k].created}) + 1)

C1_Witness ==
    /\ policy = "mark"
    /\ \E i \in 1..Len(AllCalls) :
        /\ i + 1 <= Len(AllCalls)
        /\ AllCalls[i].way /\ AllCalls[i + 1].way
        /\ AllCalls[i].created
        /\ SameInput(AllCalls[i], AllCalls[i + 1])
        /\ AllCalls[i + 1].ret = AllCalls[i].ret
        /\ nodes[AllCalls[i].ret].tags = {"merged"}

\* the nodes earlier calls interned under the identifier of call j, in call order
RECURSIVE EarlierSameKey(_, _)
EarlierSameKey(j, i) ==
    IF i >= j THEN <<>>
    ELSE (IF AllCalls[i].key = AllCalls[j].key THEN <<AllCalls[i].ret>> ELSE <<>>)
         \o EarlierSameKey(j, i + 1)

\* C2: under a merge policy that rejects every merge, every intern creates a
\* node of its own, the bucket of a key lists the nodes interned under it in
\* insertion order, and a lookup of the key puts every node of the bucket to
\* the merge policy, in that order, before it creates the next one.
C2_RejectedStayDistinct ==
    policy = "reject" =>
        \A j \in 1..Len(AllCalls) :
            LET d == AllCalls[j]
                earlier == EarlierSameKey(j, 1)
            IN /\ d.created
               /\ \A i \in 1..Len(earlier) : earlier[i] # d.ret
               /\ [i \in 1..Len(d.queries) |-> d.queries[i].target.i] = earlier
               /\ \A i \in 1..Len(d.queries) : d.queries[i].kind = "node"
               /\ d.key \in DOMAIN unique_node_index
               /\ LET bucket == unique_node_index[d.key]
                  IN SubSeq(bucket, 1, Len(earlier) + 1) = Append(earlier, d.ret)

C2_Witness ==
    /\ policy = "reject"
    /\ \E j \in 1..Len(AllCalls) :
        /\ AllCalls[j].way
        /\ Len(AllCalls[j].queries) = 2
        /\ AllCalls[j].queries[1].target # AllCalls[j].queries[2].target
        /\ Len(unique_node_index[AllCalls[j].key]) >= 3
        /\ \E i \in 1..(j - 1) :
             /\ AllCalls[i].key = AllCalls[j].key
             /\ AllCalls[i].x # AllCalls[j].x


Verdict(kind) == <<[way |-> 1, kind |-> kind]>>

\* a closed list that, read backwards, is a rotation of itself
IsMirror(ns) == \E k \in 0..(Len(ns) - 2) : Rotate(Reverse(ns), k) = ns

\* C3: a closed node list and any rotation of it canonicalise to the same
\* list and the duplicate check reports "way"; a reversed rotation of a ring
\* that is not its own mirror image is reported as "reverse_way"; open lists
\* are compared as they are.
C3_RotationInvariant ==
    /\ ring.how = "rotated" =>
         /\ ring.ordered = ring.dupordered
         /\ ring.verdict = Verdict("way")
    /\ (ring.how = "reversed" /\ ~IsMirror(ring.nodes)) =>
         ring.verdict = Verdict("reverse_way")
    /\ ring.how = "copied" =>
         /\ ring.ordered = ring.nodes
         /\ ring.verdict = Verdict("way")
    /\ (ring.how = "open_reversed" /\ ring.nodes # Reverse(ring.nodes)) =>
         ring.verdict = Verdict("reverse_way")

\* the lowest node id occurs once on the ring
LowestOnce(ns) ==
    \A i \in 1..(Len(ns) - 1), j \in 1..(Len(ns) - 1) :
        (/\ \A k \in 1..Len(ns) : RingIds[ns[i]] <= RingIds[ns[k]]
         /\ ns[i] = ns[j]) => i = j

\* the rule of C3 for the rings on which the lowest node id occurs once
RotationInvariantOnSimpleRings ==
    /\ (ring.how = "rotated" /\ LowestOnce(ring.nodes)) =>
         /\ ring.ordered = ring.dupordered
         /\ ring.verdict = Verdict("way")
    /\ (ring.how = "reversed" /\ LowestOnce(ring.nodes) /\ ~IsMirror(ring.nodes)) =>
         ring.verdict = Verdict("reverse_way")
    /\ ring.how = "copied" =>
         /\ ring.ordered = ring.nodes
         /\ ring.verdict = Verdict("way")
    /\ (ring.how = "open_reversed" /\ ring.nodes # Reverse(ring.nodes)) =>
         ring.verdict = Verdict("reverse_way")


\* a polygon with one ring that is not longer than the way-length limit
SingleRing(geom) ==
    /\ geom.type = "Polygon"
    /\ Len(geom.parts) = 1
    /\ Len(geom.parts[1].pts) <= max_points_in_way

C4_Step ==
    (/\ policy = "union"
     /\ Len(hist') = Len(hist) + 1
     /\ SingleRing(hist'[Len(hist')].geom))
    => LET e == hist'[Len(hist')]
       IN \A i \in 1..Len(hist) :
            (/\ SingleRing(hist[i].geom)
             /\ hist[i].geom.parts[1].pts = e.geom.parts[1].pts)
            => /\ Len(nodes') = Len(nodes)
               /\ Len(ways') = Len(ways)
               /\ Len(relations') = Len(relations)
               /\ e.ret = hist[i].ret
               /\ Len(e.ret) = 1
               /\ e.ret[1].k = "way"
               /\ ways'[e.ret[1].i].tags = ways[e.ret[1].i].tags \cup e.tags
               /\ hist[i].tags \subseteq ways'[e.ret[1].i].tags
               /\ ways'[e.ret[1].i].nodes = ways[e.ret[1].i].nodes
               /\ (Len(hist) = 1 =>
                     /\ ways'[e.ret[1].i].tags = hist[i].tags \cup e.tags
                     /\ \A w \in 1..Len(ways') :
                          ways'[w].nodes = ways'[e.ret[1].i].nodes => w = e.ret[1].i)

\* C4: under a merge policy that always accepts and returns the union of the
\* tags, adding a single-ring polygon within the way-length limit whose ring
\* coordinates are those of a polygon added before creates no node, way or
\* relation; the way of the earlier polygon is returned, keeps its nodes, and
\* has its tags joined with the tags of the feature.
C4_SamePolygonAgain == [][C4_Step]_vars

C4_Witness ==
    /\ policy = "union"
    /\ Len(hist) = 2
    /\ SingleRing(hist[1].geom) /\ SingleRing(hist[2].geom)
    /\ hist[1].geom.parts[1].pts = hist[2].geom.parts[1].pts
    /\ Len(hist[1].geom.parts[1].pts) = 3
    /\ hist[1].tags # hist[2].tags
    /\ Len(ways) = 1
    /\ Len(nodes) = 2
    /\ ways[1].tags = {"t1", "t2"}
    /\ hist[2].ret = <<WayRef(1)>>

CommonNodes(v, w) ==
    {n \in 1..Len(nodes) : /\ \E j \in 1..Len(ways[v].nodes) : ways[v].nodes[j] = n
                           /\ \E j \in 1..Len(ways[w].nodes) : ways[w].nodes[j] = n}

\* C5: with a limit L >= 2, split_long_ways turns a way of exactly 2L-1 nodes
\* into exactly two ways, the way itself and one new way, and the two have
\* exactly one node in common.
C5_SplitInTwo ==
    \A s \in 1..Len(split_parts) :
        LET e == split_parts[s]
        IN (max_points_in_way >= 2 /\ Len(e.orig) = 2 * max_points_in_way - 1) =>
             /\ Len(e.parts) = 2
             /\ e.parts[1] = e.way
             /\ Cardinality(CommonNodes(e.parts[1], e.parts[2])) = 1

\* C6: after split_long_ways, a relation that had a split way as a member with
\* role r has every chunk of that way as a member with role r, for every role
\* the way had in it, and is a parent of every chunk.
C6_MembershipSurvives ==
    \A s \in 1..Len(split_parts) :
        LET e == split_parts[s]
        IN \A rr \in e.roles : \A c \in 1..Len(e.parts) :
             /\ \E j \in 1..Len(relations[rr.rel].members) :
                    /\ relations[rr.rel].members[j].member = WayRef(e.parts[c])
                    /\ relations[rr.rel].members[j].role = rr.role
             /\ RelRef(rr.rel) \in ways[e.parts[c]].parents

\* C7: in every state reached by add_feature and split_long_ways, a node
\* occurs in the node list of a way exactly if the way is one of its parents.
C7_ParentsConsistent ==
    \A w \in 1..Len(ways) : \A n \in 1..Len(nodes) :
        (\E j \in 1..Len(ways[w].nodes) : ways[w].nodes[j] = n)
            <=> WayRef(w) \in nodes[n].parents

GenericCollection(geom) ==
    geom.type \in {"MultiPoint", "GeometryCollection"} /\ Len(geom.parts) >= 1

\* C9: parsing a generic geometry collection with k >= 1 sub-geometries raises
\* no error and returns one new relation with k members, each with the role
\* "member" and each with the relation as a parent.
C9_CollectionRelation ==
    \A i \in 1..Len(hist) :
        GenericCollection(hist[i].geom) =>
            /\ (i = Len(hist) => ~raised)
            /\ Len(hist[i].ret) = 1
            /\ hist[i].ret[1].k = "relation"
            /\ LET r == hist[i].ret[1].i
               IN /\ Len(relations[r].members) = Len(hist[i].geom.parts)
                  /\ \A j \in 1..Len(relations[r].members) :
                       /\ relations[r].members[j].role = "member"
                       /\ RelRef(r) \in Entity(Store, relations[r].members[j].member).parents

Touches(d, n) ==
    d.ret = n \/ \E q \in 1..Len(d.queries) : d.queries[q].target = NodeRef(n)

\* C8: a standalone point feature never looks up, merges into or returns a
\* node created for a way member, and parsing a line never returns or looks
\* up a node created by a standalone point feature, whatever identity
\* function the translation supplies.
C8_IndexOnlyForWayNodes ==
    \A i \in 1..Len(AllCalls), j \in 1..Len(AllCalls) :
        LET c == AllCalls[i]
            d == AllCalls[j]
        IN (i < j /\ c.created /\ c.way # d.way) => ~Touches(d, c.ret)

\* C8 as amended: the index is shared.  A call of __add_node looks up, merges
\* into and returns only nodes interned under its own identifier: the rounded
\* (x, y) for a way member, the value the identity function returns for a
\* point feature.  Points and way members meet only under an identity function
\* that returns the rounded coordinate tuple itself.
C8_SharedIndexByKey ==
    \A i \in 1..Len(AllCalls), j \in 1..Len(AllCalls) :
        LET c == AllCalls[i]
            d == AllCalls[j]
        IN (i < j /\ c.created /\ Touches(d, c.ret)) =>
             /\ c.key = d.key
             /\ (c.way # d.way =>
                   /\ identifier = "coord"
                   /\ RoundNumber(c.x) = RoundNumber(d.x)
                   /\ RoundNumber(c.y) = RoundNumber(d.y))

C8_Witness ==
    \E i \in 1..Len(AllCalls), j \in 1..Len(AllCalls) :
        /\ i < j
        /\ AllCalls[i].created /\ AllCalls[i].way /\ ~AllCalls[j].way
        /\ AllCalls[j].ret = AllCalls[i].ret
        /\ AllCalls[i].x # AllCalls[j].x
        /\ nodes[AllCalls[j].ret].tags # {}

FullProtocol == <<"process_output", "open", "write_header", "write_nodes", "write_ways",
                  "write_relations", "write_footer", "close">>

\* C10: in a run of output() in which no collaborator call fails, the
\* translation's process_output is called once, before open, and the writer
\* then receives open, write_header, write_nodes, write_ways, write_relations,
\* write_footer, close, each once and in that order.
C10_WriterProtocol ==
    /\ pc = "done" => writer_calls = FullProtocol
    /\ (pc \notin {"idle", "done", "failed"} /\ ~pending) =>
         /\ Len(writer_calls) < Len(FullProtocol)
         /\ writer_calls = SubSeq(FullProtocol, 1, Len(writer_calls))
         /\ pc = FullProtocol[Len(writer_calls) + 1]

C10_Witness == pc = "done" /\ Len(writer_calls) = 8 /\ Len(nodes) > 0

Closes == {i \in 1..Len(writer_calls) : writer_calls[i] = "close"}

\* a step of output() with a failed write step behind it calls close and
\* nothing else
C11_AfterFailure ==
    (pending /\ pc = "close") =>
        /\ writer_calls' = Append(writer_calls, "close")
        /\ pc' = "failed"

\* a step that fails a write step leaves close as the next call
C11_FailingStep ==
    (~pending /\ pending') =>
        /\ pc \in WriteSteps
        /\ writer_calls' = Append(writer_calls, pc)
        /\ pc' = "close"

\* C11: once open() has succeeded in output(), close() is eventually called,
\* also when a write step fails; close() is never called twice in a run; the
\* step that follows a failed write step is the call of close().
C11_WriterFinalized ==
    /\ [](Cardinality(Closes) <= 1)
    /\ [][C11_AfterFailure /\ C11_FailingStep]_vars
    /\ (pc = "write_header") ~>
           (/\ pc \in {"done", "failed"}
            /\ Cardinality(Closes) = 1
            /\ writer_calls[Len(writer_calls)] = "close")

C11_Witness ==
    /\ pc = "failed"
    /\ pending
    /\ writer_calls = <<"process_output", "open", "write_header", "write_nodes",
                        "write_ways", "close">>

\* the add_feature calls that came to the duplicate check of __parse_polygon
RelationChecks ==
    {i \in 1..Len(hist) : /\ hist[i].checks # <<>>
                          /\ hist[i].checks[Len(hist[i].checks)].kind = "relation"
                          /\ Len(hist[i].ret) = 1
                          /\ hist[i].ret[1].k = "relation"}

\* position by position the same member with the same role
SameMembers(a, b) ==
    /\ Len(a) = Len(b)
    /\ \A j \in 1..Len(a) : a[j].member = b[j].member /\ a[j].role = b[j].role

\* C12: polygon parsing returns a relation that existed before only if the
\* ordered (member, role) list of that relation equals the list just built,
\* position by position; a relation with the same pairs in another order is
\* never reported as a duplicate and never returned.
C12_RelationDedupOrdered ==
    \A i \in RelationChecks :
        LET e == hist[i].checks[Len(hist[i].checks)]
            r == hist[i].ret[1].i
        IN /\ r <= Len(e.snapshot) => SameMembers(e.snapshot[r], e.built)
           /\ \A d \in 1..Len(e.dups) : SameMembers(e.snapshot[e.dups[d]], e.built)
           /\ \A q \in 1..Len(e.snapshot) :
                (Pairs(e.snapshot[q]) = Pairs(e.built) /\ e.snapshot[q] # e.built)
                    => r # q /\ \A d \in 1..Len(e.dups) : e.dups[d] # q

C12_Witness ==
    /\ policy = "union"
    /\ \E i \in RelationChecks :
        LET e == hist[i].checks[Len(hist[i].checks)]
        IN /\ Len(e.built) = 3
           /\ hist[i].ret[1].i = Len(e.snapshot) + 1
           /\ \E p \in 1..Len(e.pot) :
                /\ Pairs(e.snapshot[e.pot[p]]) = Pairs(e.built)
                /\ e.snapshot[e.pot[p]] # e.built

\* a polygon with no ring, or with a first ring that is not a line geometry
NoExterior(geom) ==
    /\ geom.type = "Polygon"
    /\ (Len(geom.parts) = 0 \/ geom.parts[1].type \notin LineTypes)

\* the call of add_feature that this step is, if it is one
Added == hist'[Len(hist')]

Skipped ==
    /\ UNCHANGED <<nodes, unique_node_index, ways, relations, id_counter>>
    /\ ~raised'
    /\ Added.ret = <<NoneRef>>
    /\ Added.post = <<>>
    /\ Added.calls = <<>>

\* C13: add_feature of a polygon with zero rings, or whose first ring is not
\* a line geometry, raises no error, creates and changes no node, way or
\* relation, and calls the post-processing hook for nothing.
C13_Step ==
    (Len(hist') = Len(hist) + 1 /\ NoExterior(Added.geom)) => Skipped

C13_NoExteriorSkipped == [][C13_Step]_vars

\* the rule of C13 for the polygons that do not take the single-ring shortcut
\* of lines 187-191
SkippedOutsideShortcut ==
    [][(/\ Len(hist') = Len(hist) + 1
        /\ NoExterior(Added.geom)
        /\ ~(/\ Len(Added.geom.parts) = 1
             /\ Len(Added.geom.parts[1].pts) <= max_points_in_way)) => Skipped]_vars

(***************************************************************************)
(* split_long_ways: the shape of the chunks.                               *)
(***************************************************************************)
\* the node lists of the ways parts of ws joined, every list but the first
\* without its first node
RECURSIVE Rejoin(_, _, _)
Rejoin(ws, parts, c) ==
    IF c > Len(parts) THEN <<>>
    ELSE (IF c = 1 THEN ws[parts[c]].nodes ELSE Tail(ws[parts[c]].nodes))
             \o Rejoin(ws, parts, c + 1)

\* a run of split_long_ways
SplitRun == split_runs' = split_runs + 1

\* the ways the run split: the records it appended to split_parts
SplitNow == {s \in 1..Len(split_parts') : s > Len(split_parts)}

C14_Chunks(e) ==
    LET L == max_points_in_way
        n == Len(e.orig)
        k == Len(e.parts)
    IN /\ e.way <= Len(ways) /\ e.orig = ways[e.way].nodes /\ n > L
       /\ e.parts[1] = e.way
       /\ ways'[e.way].id = ways[e.way].id
       /\ (L - 1) * k >= n
       /\ \A c \in 1..k :
              LET first == (L - 1) * (c - 1)
                  chunk == ways'[e.parts[c]]
              IN /\ first < n
                 /\ chunk.nodes = [j \in 1..Min(L, n - first) |-> e.orig[first + j]]
                 /\ chunk.tags = ways[e.way].tags
                 /\ c > 1 => /\ e.parts[c] > Len(ways)
                             /\ \A w \in 1..Len(ways) : ways[w].id # chunk.id
                             /\ \A d \in 1..(c - 1) : ways'[e.parts[d]].id # chunk.id
                 /\ c < k => chunk.nodes[Len(chunk.nodes)]
                                 = ways'[e.parts[c + 1]].nodes[1]
       /\ Rejoin(ways', e.parts, 1) = e.orig

C14_Step ==
    (SplitRun /\ max_points_in_way >= 2) =>
        /\ \A w \in 1..Len(ways') : Len(ways'[w].nodes) <= max_points_in_way
        /\ \A s \in SplitNow : C14_Chunks(split_parts'[s])
        /\ \A w \in 1..Len(ways) :
               (\A s \in SplitNow : split_parts'[s].way # w) => ways'[w] = ways[w]
        /\ \A w \in 1..Len(ways) :
               Len(ways[w].nodes) > max_points_in_way
                   => \E s \in SplitNow : split_parts'[s].way = w

\* C14: with a limit L of at least 2, a run of split_long_ways leaves no way
\* with more than L nodes; a way that had more is cut at the positions 0,
\* L-1, 2(L-1), ... of its node list into chunks of at most L nodes, each
\* chunk ending with the node the next one starts with (the last chunk may be
\* that one node alone); the first chunk keeps the id and the tags of the way,
\* the others are new ways with the same tags; the chunks joined without the
\* repeated boundary nodes are the original node list; other ways are untouched
C14_ChunkShape == [][C14_Step]_vars

\* a way of five nodes cut at limit 3 into three chunks, the last of one node,
\* and in the same store a way cut into chunks the last of which has two
C14_Witness ==
    /\ split_runs = 1 /\ max_points_in_way = 3
    /\ \E s \in 1..Len(split_parts) :
           /\ Len(split_parts[s].orig) = 5
           /\ Len(split_parts[s].parts) = 3
           /\ Len(ways[split_parts[s].parts[3]].nodes) = 1
    /\ \E s \in 1..Len(split_parts) :
           /\ Len(split_parts[s].orig) = 4
           /\ Len(ways[split_parts[s].parts[2]].nodes) = 2

\* C15: a run of split_long_ways with a limit below 2 raises nothing and
\* leaves the nodes, the ways, the relations, their member lists and every
\* parent set as they were
C15_SplitDisabled ==
    [][(SplitRun /\ max_points_in_way < 2)
           => /\ UNCHANGED <<nodes, unique_node_index, ways, relations, id_counter,
                             split_parts>>
              /\ ~raised']_vars

\* split_long_ways has run at limit 1 on a store with a way of four nodes that
\* is a member of a relation
C15_Witness ==
    /\ max_points_in_way = 1 /\ split_runs >= 1 /\ ~raised
    /\ \E r \in 1..Len(relations) : \E m \in 1..Len(relations[r].members) :
           LET member == relations[r].members[m].member
           IN member.k = "way" /\ Len(ways[member.i].nodes) = 4

\* C19: in every state reached by add_feature and split_long_ways calls, no
\* way has the same node at two consecutive positions of its node list
C19_NoRepeatedNode ==
    \A w \in 1..Len(ways) : \A j \in 1..(Len(ways[w].nodes) - 1) :
        ways[w].nodes[j] # ways[w].nodes[j + 1]

\* a line whose first two points round to the same coordinates was added with
\* a policy that merges, became a way of three nodes, and was split at limit 2
C19_Witness ==
    /\ policy = "union" /\ max_points_in_way = 2 /\ split_runs = 1
    /\ \E i \in 1..Len(hist) : \E s \in 1..Len(split_parts) :
           /\ hist[i].geom = LineString(<<PA, PA2, PB, PC>>)
           /\ hist[i].ret = <<WayRef(split_parts[s].way)>>
           /\ Len(split_parts[s].orig) = 3

\* C20: a run of split_long_ways directly after another run creates no way
\* and changes no node list, member list or parent set, whatever the limit
C20_SplitIdempotent ==
    [][(SplitRun /\ split_runs >= 1)
           => UNCHANGED <<nodes, unique_node_index, ways, relations, id_counter,
                          split_parts>>]_vars

\* split_long_ways has run twice in a row on a store in which the first run
\* split a way that is a member of a relation
C20_Witness ==
    /\ split_runs = 2 /\ max_points_in_way >= 2
    /\ \E s \in 1..Len(split_parts) :
           /\ split_parts[s].roles # {}
           /\ \E w \in 1..Len(ways) : Len(ways[w].nodes) = max_points_in_way

(***************************************************************************)
(* __parse_collection: multipolygons.                                      *)
(***************************************************************************)
\* the rings of the parts of a multipolygon in the order of lines 241-250,
\* each with the role it is given: the first ring of a part "outer", the
\* others "inner"
RECURSIVE PartRings(_, _)
PartRings(polygons, p) ==
    IF p > Len(polygons) THEN <<>>
    ELSE [i \in 1..Len(polygons[p].parts) |->
             [ring |-> polygons[p].parts[i],
              role |-> IF i = 1 THEN "outer" ELSE "inner"]]
         \o PartRings(polygons, p + 1)

\* the rounded coordinates of the points of a ring, and of the nodes of a way
RingCoords(lr) ==
    {<<RoundNumber(lr.pts[i][1]), RoundNumber(lr.pts[i][2])>> :
         i \in 1..Len(lr.pts)}

WayCoords(ns, w) ==
    {<<RoundNumber(ns[w.nodes[j]].x), RoundNumber(ns[w.nodes[j]].y)>> :
         j \in 1..Len(w.nodes)}

\* the step did what __parse_polygon does and returns, r
C16_SameAs(r) ==
    /\ nodes' = r.st.nodes /\ ways' = r.st.ways /\ relations' = r.st.relations
    /\ unique_node_index' = r.st.index /\ id_counter' = r.st.idc
    /\ raised' = r.st.err
    /\ Added.ret = <<r.ret>>

C16_Step ==
    (Len(hist') = Len(hist) + 1 /\ Added.geom.type = "MultiPolygon") =>
        IF Len(Added.geom.parts) > 1
          THEN LET new == Len(relations) + 1
                   expected == PartRings(Added.geom.parts, 1)
               IN /\ ~raised'
                  /\ Len(relations') = new
                  /\ \A r \in 1..Len(relations) : relations'[r] = relations[r]
                  /\ Added.ret = <<RelRef(new)>>
                  /\ relations'[new].tags = Added.tags
                  /\ \A c \in 1..Len(Added.checks) : Added.checks[c].kind # "relation"
                  /\ \A q \in 1..Len(Added.log) : Added.log[q].kind # "relation"
                  /\ Len(relations'[new].members) = Len(expected)
                  /\ \A m \in 1..Len(expected) :
                         LET member == relations'[new].members[m]
                         IN /\ member.role = expected[m].role
                            /\ member.member.k = "way"
                            /\ WayCoords(nodes', ways'[member.member.i])
                                   = RingCoords(expected[m].ring)
                            /\ RelRef(new) \in ways'[member.member.i].parents
          ELSE Len(Added.geom.parts) = 1 =>
                   \E ord \in Orders :
                       C16_SameAs(ParsePolygon(Store, Added.geom.parts[1],
                                               Added.tags, ord))

\* C16: add_feature of a multipolygon with more than one part creates exactly
\* one relation, without any duplicate check or merge of relations, and
\* returns it; its members are, part by part, the way of the part's first
\* ring as "outer" followed by the ways of its other rings as "inner", each
\* having the relation as a parent; the relations that existed are untouched.
\* With exactly one part the store and the result are those of
\* __parse_polygon on that part
C16_MultiPolygonRelation == [][C16_Step]_vars

\* the same two-part multipolygon was added twice with a policy that merges
\* ways: two relations with identical member lists
C16_Witness ==
    /\ Len(hist) = 2 /\ ~raised
    /\ hist[1].geom = hist[2].geom
    /\ hist[1].geom.type = "MultiPolygon" /\ Len(hist[1].geom.parts) = 2
    /\ Len(relations) = 2
    /\ relations[1].members = relations[2].members
    /\ Len(relations[1].members) = 3

(***************************************************************************)
(* Merging: what translation.merge_tags returned decides.                  *)
(***************************************************************************)
\* the entities a store holds, and the tags of one of them
Refs(ns, ws, rs) ==
    {NodeRef(n) : n \in 1..Len(ns)} \cup {WayRef(w) : w \in 1..Len(ws)}
        \cup {RelRef(r) : r \in 1..Len(rs)}

TagsOf(ns, ws, rs, ref) ==
    CASE ref.k = "node" -> ns[ref.i].tags
      [] ref.k = "way" -> ws[ref.i].tags
      [] OTHER -> rs[ref.i].tags

\* the calls of merge_tags of this add_feature for an entity, and those of
\* them that returned something other than None
Queries(ref) == {q \in 1..Len(Added.log) : Added.log[q].target = ref}
Accepted(ref) == {q \in Queries(ref) : Added.log[q].ok}

LastOf(S) == CHOOSE q \in S : \A p \in S : p <= q

\* C17 as stated: an entity that existed is returned in place of a new one,
\* or has its tags changed, only if merge_tags returned a non-empty tag set
\* for it
C17_MergeOnlyNonEmpty ==
    [][Len(hist') = Len(hist) + 1 =>
           \A ref \in Refs(nodes, ways, relations) :
               (\/ TagsOf(nodes', ways', relations', ref)
                       # TagsOf(nodes, ways, relations, ref)
                \/ \E i \in 1..Len(Added.ret) : Added.ret[i] = ref
                \/ \E c \in 1..Len(Added.calls) :
                       ~Added.calls[c].created /\ NodeRef(Added.calls[c].ret) = ref)
                   => \E q \in Queries(ref) :
                          Added.log[q].ok /\ Added.log[q].result # {}]_vars

C17_Step ==
    Len(hist') = Len(hist) + 1 =>
        /\ \A ref \in Refs(nodes, ways, relations) :
               \* returned in place of a new entity, or tags changed: accepted
               /\ (\/ TagsOf(nodes', ways', relations', ref)
                          # TagsOf(nodes, ways, relations, ref)
                   \/ \E i \in 1..Len(Added.ret) : Added.ret[i] = ref)
                      => Accepted(ref) # {}
               \* accepted: the tags are what the policy returned last
               /\ Accepted(ref) # {}
                      => TagsOf(nodes', ways', relations', ref)
                             = Added.log[LastOf(Accepted(ref))].result
        /\ \A c \in 1..Len(Added.calls) :
               LET d == Added.calls[c]
               IN IF d.created
                    THEN \A q \in 1..Len(d.queries) : ~d.queries[q].ok
                    ELSE /\ d.queries # <<>>
                         /\ d.queries[Len(d.queries)].ok
                         /\ d.queries[Len(d.queries)].target = NodeRef(d.ret)
                         /\ d.tags_after = d.queries[Len(d.queries)].result
                         /\ \A q \in 1..(Len(d.queries) - 1) : ~d.queries[q].ok
        \* a rejected candidate is followed by the next one or by a new entity
        /\ \A q \in 1..Len(Added.log) :
               ~Added.log[q].ok =>
                   \/ q < Len(Added.log)
                          /\ Added.log[q + 1].target # Added.log[q].target
                   \/ Len(nodes') + Len(ways') + Len(relations')
                          > Len(nodes) + Len(ways) + Len(relations)

\* C17 (amended): an existing node, way or relation is returned in place of
\* a new one, or has its tags changed, only if merge_tags returned a tag set
\* for it, that is anything but None, the empty tag set included; its tags
\* are then the returned ones.  When merge_tags returned None for every
\* candidate the candidates keep their tags and a new entity is created
C17_MergeIffNotNone == [][C17_Step]_vars

\* a way vertex and a way without tags were merged with the empty tag set the
\* policy returned, and a relation with a non-empty one
C17_Witness ==
    /\ ~raised
    /\ \E i \in 1..Len(hist) :
           /\ \E c \in 1..Len(hist[i].calls) :
                  ~hist[i].calls[c].created /\ hist[i].calls[c].tags_after = {}
           /\ \E q \in 1..Len(hist[i].log) :
                  /\ hist[i].log[q].kind \in {"way", "reverse_way"}
                  /\ hist[i].log[q].ok /\ hist[i].log[q].result = {}
           /\ \E q \in 1..Len(hist[i].log) :
                  /\ hist[i].log[q].kind = "relation"
                  /\ hist[i].log[q].ok /\ hist[i].log[q].result # {}
           /\ hist[i].ret[1].k = "relation" /\ Len(relations) = 1

(***************************************************************************)
(* __parse_linestring: the candidates of the duplicate check.              *)
(***************************************************************************)
\* the duplicate checks of ways made so far for a non-empty node list
WayChecks ==
    {e \in UNION {{hist[i].checks[c] : c \in 1..Len(hist[i].checks)} :
                     i \in 1..Len(hist)} :
         e.kind = "way" /\ e.built # <<>>}

\* what __verify_duplicate_ways finds when it is given every way of the store
AllDuplicates(e) ==
    VerifyDuplicateWays(e.ids, e.snapshot, [w \in 1..Len(e.snapshot) |-> w], e.built)

Found(dups) == {dups[i] : i \in 1..Len(dups)}

\* C18: in every state reached by add_feature and split_long_ways calls, the
\* duplicates __parse_linestring detects among its candidates are the ways
\* __verify_duplicate_ways detects among all the ways of the store
C18_PruningLosesNothing ==
    \A e \in WayChecks : Found(e.dups) = Found(AllDuplicates(e))

\* the same, for the checks made before any way was split
PruningLosesNothingBeforeSplit ==
    split_parts = <<>> => C18_PruningLosesNothing

====
